---- MODULE Spec2Model ----
(***************************************************************************)
(* A model of the screenshot daemon of screenshot_cron.py:                 *)
(*   - Spec      the control loop ScreenshotDaemon.screenshot_loop with    *)
(*               start() and stop(), one loop thread, a clock in seconds;  *)
(*   - SpecSend  TelegramBot.send_photo and the two job executions that    *)
(*               deliver an artifact (take_screenshot,                     *)
(*               take_web_screenshots) step by step;                       *)
(*   - SpecSweep ScreenshotDaemon.cleanup_old_screenshots step by step on  *)
(*               an output directory that other processes can change, and  *)
(*               SpecSweepAlone on one that nothing else touches;          *)
(*   - SpecLife  start() and stop() step by step, called one after the     *)
(*               other, and the loop threads they start and leave behind;  *)
(*   - SpecCount the same with the updates the loop threads make to the    *)
(*               counters of self.stats;                                   *)
(*   - SpecStatus get_status() called between the steps of executions of   *)
(*               take_screenshot;                                          *)
(*   - SpecPid   the commands start, monitor, status and stop of main(),   *)
(*               each a process of its own, and PID_FILE;                  *)
(*   - SpecLoopSweep the control loop calling the sweep step by step;      *)
(*   - SpecMonitor the health monitor of health_monitor.py run between     *)
(*               the steps of the job executions.                          *)
(***************************************************************************)
EXTENDS Integers, Sequences, FiniteSets, TLC

VARIABLES
    config,              \* the CONFIG dictionary the daemon was built from
    running,             \* ScreenshotDaemon.running
    pc,                  \* position of the loop thread in screenshot_loop
    now,                 \* time.time(), in seconds
    current_time,        \* local of screenshot_loop
    last_cleanup,        \* local of screenshot_loop
    last_health_check,   \* local of screenshot_loop
    last_web_screenshot, \* local of screenshot_loop
    stats,               \* ScreenshotDaemon.stats
    calls,               \* how often the loop has called each job so far
    loop_errors,         \* "Error in screenshot loop" lines logged so far
    job_seconds,         \* how long a job called by the loop can take
    disk,                \* the artifacts in output_dir: records [name, mtime]
    job,                 \* the job execution in progress (take_screenshot,
                         \* take_web_screenshots): position and locals
    sp,                  \* the send_photo call in progress: position and locals
    trace,               \* transport calls and waits made for the artifact
                         \* in delivery, kept until the job execution ends
    sw,                  \* the cleanup_old_screenshots call in progress
    locked,              \* artifacts whose unlink raises PermissionError
    main,                \* the start() or stop() call in progress
    threads,             \* the loop threads started so far, by position
    thread,              \* ScreenshotDaemon.thread: index in threads, 0: None
    counting,            \* per loop thread: the update of a counter of
                         \* self.stats it is in, with the value it has read
    notes,               \* what the calls logged, sent and left on disk
    status,              \* the dictionary the latest get_status() returned
    procs,               \* the processes started by commands, by PID
    pidfile,             \* the PID written in PID_FILE
    monitor              \* the latest run of the health monitor: what
                         \* check_recent_screenshots returned and its alerts

loopVars == <<running, pc, current_time, last_cleanup,
              last_health_check, last_web_screenshot, calls, loop_errors,
              job_seconds>>

sendVars == <<job, sp, trace>>

sweepVars == <<sw, locked>>

lifeVars == <<main, threads, thread, notes, counting>>

outerVars == <<status, procs, pidfile, monitor>>

ctrlVars == <<loopVars, lifeVars, outerVars>>

vars == <<config, now, stats, disk, loopVars, sendVars, sweepVars, outerVars, lifeVars>>

-----------------------------------------------------------------------------
(* Bounds and program constants *)

\* time.time() when the process starts: far larger than any interval
StartEpoch == 1000000
\* the loop is followed for this many seconds after the start
Horizon == 40
\* a job called by the loop returns at once or after this many seconds
JobSeconds == {0, 5}
\* time.sleep(10) of the loop's exception handler
ErrorSleep == 10

\* names of regions and URLs, as the words that "_" separates
FullScreen == <<"full", "screen">>
Custom == <<"custom">>
Ghost == <<"ghost">>
Bracketed == <<"screen", "[1]">>
Google == <<"google">>
Nowhere == <<"nowhere">>

\* CONFIG, with the intervals in seconds of a short run
DefaultConfig ==
    [interval |-> 5,
     regions |-> <<FullScreen, Custom>>,
     active_regions |-> <<FullScreen>>,
     keep_days |-> 1,
     max_files |-> 2,
     health_check_interval |-> 15,
     enable_cleanup |-> TRUE,
     cleanup_interval |-> 10,
     web_enabled |-> TRUE,
     web_urls |-> {Google},
     web_chats |-> {Google},
     active_urls |-> <<Google>>,
     web_interval |-> 7,
     web_delete_after_send |-> TRUE,
     telegram_enabled |-> TRUE,
     region_chats |-> {FullScreen, Custom},
     send_immediately |-> TRUE,
     delete_after_send |-> TRUE,
     retry_attempts |-> 3,
     retry_delay |-> 5]

\* the configurations the control loop is run with; the deliveries of the
\* jobs are followed in SpecSend, and the loop is run without a bot
LoopConfigs ==
    {[DefaultConfig EXCEPT !.web_enabled = we, !.web_interval = wi,
                           !.enable_cleanup = ec, !.telegram_enabled = FALSE] :
        we \in BOOLEAN, wi \in {7, 15}, ec \in BOOLEAN}

Range(seq) == {seq[i] : i \in 1..Len(seq)}

-----------------------------------------------------------------------------
(* ScreenshotDaemon.stats *)

NoTime == 0

InitStats ==
    [total_screenshots |-> 0, failed_screenshots |-> 0,
     telegram_sent |-> 0, telegram_failed |-> 0,
     start_time |-> NoTime, last_screenshot |-> NoTime, last_cleanup |-> NoTime]

\* what one region capture of take_screenshot can come to: the capture
\* fails, or the file is saved and, with a bot, sent or not sent
RegionOutcomes ==
    IF config.telegram_enabled /\ config.send_immediately
      THEN {"capture_failed", "sent", "send_failed"}
      ELSE {"capture_failed", "saved"}

\* take_screenshot with the one active region of CONFIG, by its outcome
take_screenshot_stats(s, o, t) ==
    [s EXCEPT
       !.failed_screenshots = @ + (IF o = "capture_failed" THEN 1 ELSE 0),
       !.telegram_sent = @ + (IF o = "sent" THEN 1 ELSE 0),
       !.telegram_failed = @ + (IF o = "send_failed" THEN 1 ELSE 0),
       !.total_screenshots = @ + (IF o = "capture_failed" THEN 0 ELSE 1),
       !.last_screenshot = t]

\* what take_web_screenshots with the one active URL of CONFIG can come to
\* when it returns
WebOutcomes ==
    IF config.telegram_enabled
      THEN {"driver_failed", "capture_failed", "sent", "send_failed"}
      ELSE {"driver_failed", "capture_failed", "saved"}

take_web_screenshots_stats(s, o) ==
    [s EXCEPT
       !.failed_screenshots = @ + (IF o = "capture_failed" THEN 1 ELSE 0),
       !.telegram_sent = @ + (IF o = "sent" THEN 1 ELSE 0),
       !.telegram_failed = @ + (IF o = "send_failed" THEN 1 ELSE 0),
       !.total_screenshots =
           @ + (IF o \in {"sent", "send_failed", "saved"} THEN 1 ELSE 0)]

-----------------------------------------------------------------------------
(* The control loop *)

\* how often the loop has called each of its jobs, with the time and the
\* outcome of the latest call of take_web_screenshots; screenshot_loop has
\* no call of a job that is due at a time of day, and "timed" stays 0
NoCalls ==
    [shot |-> 0, web |-> 0, sweep |-> 0, health |-> 0, timed |-> 0,
     web_at |-> 0, web_failed |-> FALSE]

InitLoop ==
    /\ running = FALSE
    /\ pc = "unstarted"
    /\ current_time = 0
    /\ last_cleanup = 0
    /\ last_health_check = 0
    /\ last_web_screenshot = 0
    /\ calls = NoCalls
    /\ loop_errors = 0
    /\ job_seconds \in JobSeconds

InHorizon(t) == t <= StartEpoch + Horizon

\* start(): sets the flag and starts the thread that runs screenshot_loop
start ==
    /\ ~running
    /\ pc = "unstarted"
    /\ running' = TRUE
    /\ pc' = "begin"
    /\ UNCHANGED <<disk, sendVars, sweepVars, outerVars, job_seconds, config, lifeVars>>
    /\ UNCHANGED <<now, current_time, last_cleanup, last_health_check,
                   last_web_screenshot, stats, calls, loop_errors>>

\* stop() as it would be if it ended the loop thread by force
stop_interrupts ==
    /\ running
    /\ running' = FALSE
    /\ pc' = "done"
    /\ UNCHANGED <<disk, sendVars, sweepVars, outerVars, job_seconds, config, lifeVars>>
    /\ UNCHANGED <<now, current_time, last_cleanup,
                   last_health_check, last_web_screenshot, stats, calls,
                   loop_errors>>

\* stop(): clears the flag; the loop thread sees it at its next test
stop ==
    /\ running
    /\ running' = FALSE
    /\ UNCHANGED <<disk, sendVars, sweepVars, outerVars, job_seconds, config, lifeVars>>
    /\ UNCHANGED <<pc, now, current_time, last_cleanup,
                   last_health_check, last_web_screenshot, stats, calls,
                   loop_errors>>

\* screenshot_loop, before the while
loop_begin ==
    /\ pc = "begin"
    /\ stats' = [stats EXCEPT !.start_time = now]
    /\ last_cleanup' = 0
    /\ last_health_check' = 0
    /\ last_web_screenshot' = 0
    /\ pc' = "top"
    /\ UNCHANGED <<disk, sendVars, sweepVars, outerVars, job_seconds, config, lifeVars>>
    /\ UNCHANGED <<running, now, current_time, calls, loop_errors>>

\* while self.running: current_time = time.time()
loop_top ==
    /\ pc = "top"
    /\ IF running
         THEN /\ current_time' = now
              /\ pc' = "shot"
         ELSE /\ pc' = "done"
              /\ UNCHANGED current_time
    /\ UNCHANGED <<disk, sendVars, sweepVars, outerVars, job_seconds, config, lifeVars>>
    /\ UNCHANGED <<running, now, last_cleanup, last_health_check,
                   last_web_screenshot, stats, calls, loop_errors>>

\* self.take_screenshot(): every failure of a capture is handled inside
loop_take_screenshot ==
    /\ pc = "shot"
    /\ \E o \in RegionOutcomes, d \in {0, job_seconds} :
         /\ InHorizon(now + d)
         /\ now' = now + d
         /\ stats' = take_screenshot_stats(stats, o, now + d)
    /\ calls' = [calls EXCEPT !.shot = @ + 1]
    /\ pc' = "web"
    /\ UNCHANGED <<disk, sendVars, sweepVars, outerVars, job_seconds, config, lifeVars>>
    /\ UNCHANGED <<running, current_time, last_cleanup,
                   last_health_check, last_web_screenshot, loop_errors>>

WebDue ==
    /\ config.web_enabled
    /\ current_time - last_web_screenshot > config.web_interval

\* the web capture is not due
loop_web_skip ==
    /\ pc = "web"
    /\ ~WebDue
    /\ pc' = "cleanup"
    /\ UNCHANGED <<disk, sendVars, sweepVars, outerVars, job_seconds, config, lifeVars>>
    /\ UNCHANGED <<running, now, current_time, last_cleanup,
                   last_health_check, last_web_screenshot, stats, calls,
                   loop_errors>>

\* self.take_web_screenshots() returns; last_web_screenshot = current_time
loop_web_return ==
    /\ pc = "web"
    /\ WebDue
    /\ \E o \in WebOutcomes, d \in {0, job_seconds} :
         /\ InHorizon(now + d)
         /\ now' = now + d
         /\ stats' = take_web_screenshots_stats(stats, o)
         /\ calls' = [calls EXCEPT !.web = @ + 1, !.web_at = current_time,
                                   !.web_failed =
                                       o \in {"driver_failed", "capture_failed"}]
    /\ last_web_screenshot' = current_time
    /\ pc' = "cleanup"
    /\ UNCHANGED <<disk, sendVars, sweepVars, outerVars, job_seconds, config, lifeVars>>
    /\ UNCHANGED <<running, current_time, last_cleanup,
                   last_health_check, loop_errors>>

\* self.take_web_screenshots() raises (WebScreenshot() is built outside any
\* try, and os.makedirs in its constructor can fail): the rest of the loop
\* body is skipped
loop_web_raise ==
    /\ pc = "web"
    /\ WebDue
    /\ calls' = [calls EXCEPT !.web = @ + 1, !.web_at = current_time,
                              !.web_failed = TRUE]
    /\ pc' = "except"
    /\ UNCHANGED <<disk, sendVars, sweepVars, outerVars, job_seconds, config, lifeVars>>
    /\ UNCHANGED <<running, now, current_time, last_cleanup,
                   last_health_check, last_web_screenshot, stats, loop_errors>>

SweepDue ==
    /\ config.enable_cleanup
    /\ current_time - last_cleanup > config.cleanup_interval

\* cleanup_old_screenshots() catches every exception itself: it returns
\* either having set stats.last_cleanup or having logged a warning
loop_cleanup ==
    /\ pc = "cleanup"
    /\ IF SweepDue
         THEN /\ \E ok \in BOOLEAN :
                   stats' = IF ok THEN [stats EXCEPT !.last_cleanup = now]
                                  ELSE stats
              /\ calls' = [calls EXCEPT !.sweep = @ + 1]
              /\ last_cleanup' = current_time
         ELSE UNCHANGED <<stats, calls, last_cleanup>>
    /\ pc' = "health"
    /\ UNCHANGED <<disk, sendVars, sweepVars, outerVars, job_seconds, config, lifeVars>>
    /\ UNCHANGED <<running, now, current_time, last_health_check,
                   last_web_screenshot, loop_errors>>

HealthDue == current_time - last_health_check > config.health_check_interval

\* health_check() catches every exception itself
loop_health_check ==
    /\ pc = "health"
    /\ IF HealthDue
         THEN /\ calls' = [calls EXCEPT !.health = @ + 1]
              /\ last_health_check' = current_time
         ELSE UNCHANGED <<calls, last_health_check>>
    /\ pc' = "sleep"
    /\ UNCHANGED <<disk, sendVars, sweepVars, outerVars, job_seconds, config, lifeVars>>
    /\ UNCHANGED <<running, now, current_time, last_cleanup,
                   last_web_screenshot, stats, loop_errors>>

\* time.sleep(self.interval)
loop_sleep ==
    /\ pc = "sleep"
    /\ InHorizon(now + config.interval)
    /\ now' = now + config.interval
    /\ pc' = "top"
    /\ UNCHANGED <<disk, sendVars, sweepVars, outerVars, job_seconds, config, lifeVars>>
    /\ UNCHANGED <<running, current_time, last_cleanup,
                   last_health_check, last_web_screenshot, stats, calls,
                   loop_errors>>

\* the handler as it would be with the try around the while: the loop ends
loop_except_leaves ==
    /\ pc = "except"
    /\ InHorizon(now + ErrorSleep)
    /\ loop_errors' = loop_errors + 1
    /\ now' = now + ErrorSleep
    /\ pc' = "done"
    /\ UNCHANGED <<disk, sendVars, sweepVars, outerVars, job_seconds, config, lifeVars>>
    /\ UNCHANGED <<running,
                   current_time, last_cleanup, last_health_check,
                   last_web_screenshot, stats, calls>>

\* except Exception: log, time.sleep(10), next iteration
loop_except ==
    /\ pc = "except"
    /\ InHorizon(now + ErrorSleep)
    /\ loop_errors' = loop_errors + 1
    /\ now' = now + ErrorSleep
    /\ pc' = "top"
    /\ UNCHANGED <<disk, sendVars, sweepVars, outerVars, job_seconds, config, lifeVars>>
    /\ UNCHANGED <<running, current_time, last_cleanup,
                   last_health_check, last_web_screenshot, stats, calls>>

NextLoop ==
    \/ start
    \/ stop
    \/ loop_begin
    \/ loop_top
    \/ loop_take_screenshot
    \/ loop_web_skip
    \/ loop_web_return
    \/ loop_web_raise
    \/ loop_cleanup
    \/ loop_health_check
    \/ loop_sleep
    \/ loop_except

-----------------------------------------------------------------------------
(* Job executions and delivery, step by step *)

\* job executions followed in one run
MaxJobs == 2
\* retry_attempts is drawn from 1..MaxRetry
MaxRetry == 3

\* the configurations the job executions are run with
SendConfigs ==
    {[DefaultConfig EXCEPT !.active_regions = act[1], !.active_urls = act[2],
                           !.region_chats = chats[1], !.web_chats = chats[2],
                           !.telegram_enabled = te, !.delete_after_send = ds,
                           !.web_delete_after_send = ds,
                           !.retry_attempts = ra] :
        act \in {<<<<FullScreen>>, <<Google>>>>,
                 <<<<Ghost, Custom>>, <<Nowhere, Google>>>>},
        chats \in {<<{FullScreen, Custom}, {Google}>>, <<{FullScreen}, {}>>},
        te \in BOOLEAN, ds \in BOOLEAN, ra \in 1..MaxRetry}
    \cup {[DefaultConfig EXCEPT !.web_enabled = FALSE],
          [DefaultConfig EXCEPT !.active_urls = <<>>],
          [DefaultConfig EXCEPT !.regions = <<FullScreen, Bracketed>>,
                                !.active_regions = <<Bracketed>>],
          [DefaultConfig EXCEPT !.active_regions = <<FullScreen, FullScreen>>,
                                !.telegram_enabled = FALSE]}

IdleJob ==
    [pc |-> "idle", i |-> 0, taken |-> 0, path |-> <<>>, runs |-> 0,
     raised |-> FALSE, failures |-> 0, warned |-> {}]

IdleSend == [pc |-> "idle", attempt |-> 0, result |-> FALSE, script |-> <<>>]

\* what one requests.post of an attempt can come to: status 200, another
\* status, or an exception
Transport == {"ok", "status", "raise"}

Event(o) ==
    IF o = "ok" THEN "post_200"
    ELSE IF o = "status" THEN "post_err" ELSE "post_exc"

IsPost(e) == e \in {"post_200", "post_err", "post_exc"}

\* the transport calls of a trace
Posts(t) == Len(SelectSeq(t, IsPost))

\* filepath = output_dir / f"{name}_{timestamp}.png", saved at time t
Artifact(name, t) == [job |-> name, at |-> t]

mtime(f) == f.at

\* screenshot.save(filepath): a file of the same name is overwritten
WriteFile(d, f) == {g \in d : g # f} \cup {f}

\* a reference that names nothing: a region missing from regions, a URL
\* missing from urls, a region without a chat; job.warned holds the
\* references a warning has been logged for
Unknown(kind, name) == <<kind, name>>

InitJobs ==
    /\ job = IdleJob
    /\ sp = IdleSend
    /\ trace = <<>>

\* take_screenshot(): screenshots_taken = 0, for region_name in active_regions
take_screenshot_begin ==
    /\ job.pc = "idle"
    /\ job.runs < MaxJobs
    /\ job' = [job EXCEPT !.pc = "region", !.i = 1, !.taken = 0,
                          !.runs = @ + 1, !.raised = FALSE]
    /\ UNCHANGED <<config, now, stats, disk, ctrlVars, sp, trace, sweepVars>>

\* if region_name not in self.regions: warning, continue
take_screenshot_unknown_region ==
    /\ job.pc = "region"
    /\ job.i <= Len(config.active_regions)
    /\ config.active_regions[job.i] \notin Range(config.regions)
    /\ job' = [job EXCEPT !.i = @ + 1,
                          !.warned = @ \cup {Unknown("region", config.active_regions[job.i])}]
    /\ UNCHANGED <<config, now, stats, disk, ctrlVars, sp, trace, sweepVars>>

\* the capture, the save or the stat raises: failed_screenshots += 1
take_screenshot_capture_fails ==
    /\ job.pc = "region"
    /\ job.i <= Len(config.active_regions)
    /\ config.active_regions[job.i] \in Range(config.regions)
    /\ stats' = [stats EXCEPT !.failed_screenshots = @ + 1]
    /\ job' = [job EXCEPT !.i = @ + 1, !.failures = @ + 1]
    /\ UNCHANGED <<config, now, disk, ctrlVars, sp, trace, sweepVars>>

\* take_screenshot as it would be if it also sent the files of the region
\* that earlier executions left in the directory
take_screenshot_captured_resends ==
    /\ job.pc = "region"
    /\ job.i <= Len(config.active_regions)
    /\ config.active_regions[job.i] \in Range(config.regions)
    /\ config.telegram_enabled /\ config.send_immediately
    /\ LET f == Artifact(config.active_regions[job.i], now) IN
         /\ disk' = WriteFile(disk, f)
         /\ \E g \in {h \in disk' : h.job = f.job} :
              job' = [job EXCEPT !.pc = "send", !.path = g]
         /\ sp' = [IdleSend EXCEPT !.pc = "enter"]
         /\ trace' = <<>>
    /\ UNCHANGED <<config, now, stats, ctrlVars, sweepVars>>

\* the screenshot is saved; it is handed to send_photo if the bot exists and
\* send_immediately is set, else screenshots_taken += 1
take_screenshot_captured ==
    /\ job.pc = "region"
    /\ job.i <= Len(config.active_regions)
    /\ config.active_regions[job.i] \in Range(config.regions)
    /\ LET f == Artifact(config.active_regions[job.i], now) IN
         /\ disk' = WriteFile(disk, f)
         /\ IF config.telegram_enabled /\ config.send_immediately
              THEN /\ job' = [job EXCEPT !.pc = "send", !.path = f]
                   /\ sp' = [IdleSend EXCEPT !.pc = "enter"]
                   /\ trace' = <<>>
              ELSE /\ job' = [job EXCEPT !.taken = @ + 1, !.i = @ + 1, !.path = f]
                   /\ UNCHANGED <<sp, trace>>
    /\ UNCHANGED <<config, now, stats, ctrlVars, sweepVars>>

\* send_photo as it would be without its test of region_chats
send_photo_enter_unchecked ==
    /\ sp.pc = "enter"
    /\ \E script \in [1..(config.retry_attempts + 1) -> Transport] :
         sp' = [sp EXCEPT !.pc = "try", !.attempt = 0, !.script = script]
    /\ UNCHANGED <<config, now, stats, disk, ctrlVars, job, trace, sweepVars>>

\* send_photo: a region without a chat returns False at once; else the
\* retry loop is entered, against a transport that answers by sp.script
send_photo_enter ==
    /\ sp.pc = "enter"
    /\ IF job.path.job \notin config.region_chats
         THEN /\ sp' = [sp EXCEPT !.pc = "ret", !.result = FALSE]
              /\ job' = [job EXCEPT !.warned = @ \cup {Unknown("chat", job.path.job)}]
         ELSE /\ \E script \in [1..(config.retry_attempts + 1) -> Transport] :
                   sp' = [sp EXCEPT !.pc = "try", !.attempt = 0, !.script = script]
              /\ UNCHANGED job
    /\ UNCHANGED <<config, now, stats, disk, ctrlVars, trace, sweepVars>>

\* the end of one pass of "for attempt in range(self.retry_attempts)"
next_attempt_once_more(s) ==
    IF s.attempt + 1 <= config.retry_attempts
      THEN [s EXCEPT !.pc = "try", !.attempt = @ + 1]
      ELSE [s EXCEPT !.pc = "ret", !.result = FALSE]

next_attempt(s) ==
    IF s.attempt + 1 < config.retry_attempts
      THEN [s EXCEPT !.pc = "try", !.attempt = @ + 1]
      ELSE [s EXCEPT !.pc = "ret", !.result = FALSE]

\* one pass of the retry loop after requests.post answered o
after_post_no_return(s, o) ==
    IF o \in {"ok", "status"}
      THEN next_attempt(s)
      ELSE IF s.attempt < config.retry_attempts - 1
             THEN [s EXCEPT !.pc = "wait"]
             ELSE next_attempt(s)

after_post(s, o) ==
    IF o = "ok"
      THEN [s EXCEPT !.pc = "ret", !.result = TRUE]
      ELSE IF o = "status"
             THEN next_attempt(s)
             ELSE IF s.attempt < config.retry_attempts - 1
                    THEN [s EXCEPT !.pc = "wait"]
                    ELSE next_attempt(s)

\* send_photo as it would be if it removed the file itself once the
\* transport has answered 200
send_photo_post_unlinks ==
    /\ sp.pc = "try"
    /\ trace' = Append(trace, Event(sp.script[sp.attempt + 1]))
    /\ sp' = after_post(sp, sp.script[sp.attempt + 1])
    /\ disk' = IF sp.script[sp.attempt + 1] = "ok"
                 THEN disk \ {job.path} ELSE disk
    /\ UNCHANGED <<config, now, stats, ctrlVars, job, sweepVars>>

\* one attempt: requests.post(...)
send_photo_post ==
    /\ sp.pc = "try"
    /\ trace' = Append(trace, Event(sp.script[sp.attempt + 1]))
    /\ sp' = after_post(sp, sp.script[sp.attempt + 1])
    /\ UNCHANGED <<config, now, stats, disk, ctrlVars, job, sweepVars>>

\* time.sleep(self.retry_delay) of the except branch
send_photo_wait ==
    /\ sp.pc = "wait"
    /\ now' = now + config.retry_delay
    /\ trace' = Append(trace, "sleep")
    /\ sp' = next_attempt(sp)
    /\ UNCHANGED <<config, stats, disk, ctrlVars, job, sweepVars>>

\* back in take_screenshot with telegram_sent true: telegram_sent += 1 and,
\* if delete_after_send, filepath.unlink(), whose failure is only logged
take_screenshot_sent ==
    /\ job.pc = "send"
    /\ sp.pc = "ret"
    /\ sp.result
    /\ stats' = [stats EXCEPT !.telegram_sent = @ + 1]
    /\ \E unlinked \in BOOLEAN :
         disk' = IF config.delete_after_send /\ unlinked
                   THEN disk \ {job.path} ELSE disk
    /\ job' = [job EXCEPT !.pc = "region", !.taken = @ + 1, !.i = @ + 1]
    /\ sp' = IdleSend
    /\ UNCHANGED <<config, now, ctrlVars, trace, sweepVars>>

\* take_screenshot as it would be if it removed the file after a delivery
\* that failed as well
take_screenshot_not_sent_deletes ==
    /\ job.pc = "send"
    /\ sp.pc = "ret"
    /\ ~sp.result
    /\ stats' = [stats EXCEPT !.telegram_failed = @ + 1]
    /\ disk' = IF config.delete_after_send THEN disk \ {job.path} ELSE disk
    /\ job' = [job EXCEPT !.pc = "region", !.taken = @ + 1, !.i = @ + 1]
    /\ sp' = IdleSend
    /\ UNCHANGED <<config, now, ctrlVars, trace, sweepVars>>

\* back in take_screenshot with telegram_sent false: telegram_failed += 1
take_screenshot_not_sent ==
    /\ job.pc = "send"
    /\ sp.pc = "ret"
    /\ ~sp.result
    /\ stats' = [stats EXCEPT !.telegram_failed = @ + 1]
    /\ job' = [job EXCEPT !.pc = "region", !.taken = @ + 1, !.i = @ + 1]
    /\ sp' = IdleSend
    /\ UNCHANGED <<config, now, disk, ctrlVars, trace, sweepVars>>

\* after the for loop: total_screenshots += screenshots_taken,
\* last_screenshot = datetime.now()
take_screenshot_end ==
    /\ job.pc = "region"
    /\ job.i > Len(config.active_regions)
    /\ stats' = [stats EXCEPT !.total_screenshots = @ + job.taken,
                              !.last_screenshot = now]
    /\ job' = [job EXCEPT !.pc = "idle", !.path = <<>>]
    /\ trace' = <<>>
    /\ UNCHANGED <<config, now, disk, ctrlVars, sp, sweepVars>>

\* take_web_screenshots() returns at once: web screenshots are disabled or
\* no URL is active
take_web_screenshots_nothing ==
    /\ job.pc = "idle"
    /\ job.runs < MaxJobs
    /\ ~config.web_enabled \/ Len(config.active_urls) = 0
    /\ job' = [job EXCEPT !.runs = @ + 1, !.raised = FALSE]
    /\ UNCHANGED <<config, now, stats, disk, ctrlVars, sp, trace, sweepVars>>

\* start_driver() returns False: an error is logged and the job returns,
\* with no URL captured; job.failures counts the capture attempts that failed
take_web_screenshots_driver_fails ==
    /\ job.pc = "idle"
    /\ job.runs < MaxJobs
    /\ config.web_enabled
    /\ Len(config.active_urls) > 0
    /\ job' = [job EXCEPT !.runs = @ + 1, !.raised = FALSE,
                          !.failures = @ + 1]
    /\ UNCHANGED <<config, now, stats, disk, ctrlVars, sp, trace, sweepVars>>

\* WebScreenshot(...) raises: take_web_screenshots raises to its caller
take_web_screenshots_raises ==
    /\ job.pc = "idle"
    /\ job.runs < MaxJobs
    /\ config.web_enabled
    /\ Len(config.active_urls) > 0
    /\ job' = [job EXCEPT !.runs = @ + 1, !.raised = TRUE]
    /\ UNCHANGED <<config, now, stats, disk, ctrlVars, sp, trace, sweepVars>>

\* the driver started: for url_name in active_urls
take_web_screenshots_begin ==
    /\ job.pc = "idle"
    /\ job.runs < MaxJobs
    /\ config.web_enabled
    /\ Len(config.active_urls) > 0
    /\ job' = [job EXCEPT !.pc = "url", !.i = 1, !.runs = @ + 1,
                          !.raised = FALSE]
    /\ UNCHANGED <<config, now, stats, disk, ctrlVars, sp, trace, sweepVars>>

\* if url_name not in web_config["urls"]: warning, continue
take_web_screenshots_unknown_url ==
    /\ job.pc = "url"
    /\ job.i <= Len(config.active_urls)
    /\ config.active_urls[job.i] \notin config.web_urls
    /\ job' = [job EXCEPT !.i = @ + 1,
                          !.warned = @ \cup {Unknown("url", config.active_urls[job.i])}]
    /\ UNCHANGED <<config, now, stats, disk, ctrlVars, sp, trace, sweepVars>>

\* web_handler.take_screenshot returns False, or the try body raises:
\* failed_screenshots += 1
take_web_screenshots_capture_fails ==
    /\ job.pc = "url"
    /\ job.i <= Len(config.active_urls)
    /\ config.active_urls[job.i] \in config.web_urls
    /\ stats' = [stats EXCEPT !.failed_screenshots = @ + 1]
    /\ job' = [job EXCEPT !.i = @ + 1, !.failures = @ + 1]
    /\ UNCHANGED <<config, now, disk, ctrlVars, sp, trace, sweepVars>>

\* the page is saved as web_<url_name>_<timestamp>.png; without a bot or a
\* telegram_chat_id for the URL: total_screenshots += 1
take_web_screenshots_captured ==
    /\ job.pc = "url"
    /\ job.i <= Len(config.active_urls)
    /\ config.active_urls[job.i] \in config.web_urls
    /\ LET f == Artifact(<<"web">> \o config.active_urls[job.i], now) IN
         /\ disk' = WriteFile(disk, f)
         /\ IF config.telegram_enabled /\ config.active_urls[job.i] \in config.web_chats
              THEN /\ job' = [job EXCEPT !.pc = "web_post", !.path = f]
                   /\ stats' = stats
                   /\ trace' = <<>>
              ELSE /\ job' = [job EXCEPT !.i = @ + 1, !.path = f]
                   /\ stats' = [stats EXCEPT !.total_screenshots = @ + 1]
                   /\ UNCHANGED trace
    /\ UNCHANGED <<config, now, ctrlVars, sp, sweepVars>>

\* take_web_screenshots as it would be without the try around
\* filepath.unlink(): a failed unlink would reach the handler of the
\* delivery, which counts telegram_failed
take_web_screenshots_post_recounts ==
    /\ job.pc = "web_post"
    /\ \E o \in Transport, unlinked \in BOOLEAN :
         /\ trace' = Append(trace, Event(o))
         /\ stats' = [stats EXCEPT
                        !.telegram_sent = @ + (IF o = "ok" THEN 1 ELSE 0),
                        !.telegram_failed =
                            @ + (IF o = "ok" /\ (unlinked \/ ~config.web_delete_after_send)
                                   THEN 0 ELSE 1),
                        !.total_screenshots = @ + 1]
         /\ disk' = IF o = "ok" /\ config.web_delete_after_send /\ unlinked
                      THEN disk \ {job.path} ELSE disk
    /\ job' = [job EXCEPT !.pc = "url", !.i = @ + 1]
    /\ UNCHANGED <<config, now, ctrlVars, sp, sweepVars>>

\* the one requests.post of take_web_screenshots and what follows it:
\* 200: telegram_sent += 1 and the file is deleted if delete_after_send;
\* another status or an exception: telegram_failed += 1; then
\* total_screenshots += 1
take_web_screenshots_post ==
    /\ job.pc = "web_post"
    /\ \E o \in Transport, unlinked \in BOOLEAN :
         /\ trace' = Append(trace, Event(o))
         /\ stats' = [stats EXCEPT
                        !.telegram_sent = @ + (IF o = "ok" THEN 1 ELSE 0),
                        !.telegram_failed = @ + (IF o = "ok" THEN 0 ELSE 1),
                        !.total_screenshots = @ + 1]
         /\ disk' = IF o = "ok" /\ config.web_delete_after_send /\ unlinked
                      THEN disk \ {job.path} ELSE disk
    /\ job' = [job EXCEPT !.pc = "url", !.i = @ + 1]
    /\ UNCHANGED <<config, now, ctrlVars, sp, sweepVars>>

\* finally: web_handler.stop_driver()
take_web_screenshots_end ==
    /\ job.pc = "url"
    /\ job.i > Len(config.active_urls)
    /\ job' = [job EXCEPT !.pc = "idle", !.path = <<>>]
    /\ trace' = <<>>
    /\ UNCHANGED <<config, now, stats, disk, ctrlVars, sp, sweepVars>>

NextSend ==
    \/ take_screenshot_begin
    \/ take_screenshot_unknown_region
    \/ take_screenshot_capture_fails
    \/ take_screenshot_captured
    \/ send_photo_enter
    \/ send_photo_post
    \/ send_photo_wait
    \/ take_screenshot_sent
    \/ take_screenshot_not_sent
    \/ take_screenshot_end
    \/ take_web_screenshots_nothing
    \/ take_web_screenshots_driver_fails
    \/ take_web_screenshots_raises
    \/ take_web_screenshots_begin
    \/ take_web_screenshots_unknown_url
    \/ take_web_screenshots_capture_fails
    \/ take_web_screenshots_captured
    \/ take_web_screenshots_post
    \/ take_web_screenshots_end

-----------------------------------------------------------------------------
(* The control loop: claims *)

\* C1: a failure raised by one job never prevents the other jobs that are
\* due in the same iteration from running: when the loop body is left by an
\* exception, no sweep and no health check is still due.
LoopIsolation ==
    pc = "except" => ~SweepDue /\ ~HealthDue

\* C2: the loop ends only at its test of the running flag, with the flag
\* cleared; the exception handler leads back to that test.
LoopEndsOnlyByStop ==
    [][/\ (pc' = "done" /\ pc # "done") => (pc = "top" /\ ~running)
       /\ (pc = "except" /\ pc' # pc) => pc' = "top"]_vars

LoopEndedAfterErrors ==
    pc = "done" /\ loop_errors >= 2 /\ calls.sweep >= 1

\* C3: at the end of an iteration that ran to its sleep, no fixed-interval
\* job is left with now - lastRun >= interval, the boundary included.
DueRuleInclusive ==
    pc = "sleep" =>
      /\ ~(config.enable_cleanup
           /\ current_time - last_cleanup >= config.cleanup_interval)
      /\ ~(config.web_enabled
           /\ current_time - last_web_screenshot >= config.web_interval)

\* C4: intervals 5 s and 7 s, jobs of zero duration: when the 35-second
\* window is over the 5 s job has fired 7 times and the 7 s job 5 times,
\* give or take one, whatever the captures of the other job came to.
TwoJobsWindow ==
    (/\ pc = "top"
     /\ running
     /\ job_seconds = 0
     /\ config.interval = 5
     /\ config.web_enabled
     /\ config.web_interval = 7
     /\ current_time < stats.start_time + 35
     /\ now >= stats.start_time + 35)
    => (calls.shot \in 6..8 /\ calls.web \in 4..6)

\* C5: the k-th execution of the web job (k = 0, 1, ...) starts within one
\* wait of the loop of start + k * interval.
NoDrift ==
    (pc = "cleanup" /\ last_web_screenshot = current_time /\ calls.web >= 1)
    => current_time <= stats.start_time + (calls.web - 1) * config.web_interval
                       + config.interval

\* C21: a job whose capture attempt failed is attempted again no sooner
\* than one interval of the job after the failed attempt, whether the
\* failure was handled inside the job or raised into the handler of the loop.
NextAttemptAfterInterval ==
    [][(calls'.web = calls.web + 1 /\ calls.web_failed)
       => current_time - calls.web_at >= config.web_interval]_vars

-----------------------------------------------------------------------------
(* Delivery: claims *)

\* the first call the transport answers with 200, or 0 if it never does
FirstOk(script) ==
    IF \E k \in DOMAIN script : script[k] = "ok"
      THEN CHOOSE k \in DOMAIN script :
             script[k] = "ok" /\ \A j \in 1..(k - 1) : script[j] # "ok"
      ELSE 0

\* C6: against a transport that fails m < retry_attempts times and then
\* succeeds, send_photo returns True after exactly m + 1 transport calls.
SendSucceedsAfterFailures ==
    (sp.pc = "ret" /\ FirstOk(sp.script) \in 1..config.retry_attempts)
    => (sp.result /\ Posts(trace) = FirstOk(sp.script))

SentAtThirdAttempt ==
    /\ sp.pc = "ret"
    /\ sp.result
    /\ trace = <<"post_err", "post_exc", "sleep", "post_200">>

\* C7: against a transport that fails retry_attempts times, whatever the
\* kinds of failure, send_photo returns False after exactly retry_attempts
\* transport calls; it never makes more.
SendGivesUpAfterRetries ==
    /\ job.pc = "send" => Posts(trace) <= config.retry_attempts
    /\ (/\ sp.pc = "ret"
        /\ sp.script # <<>>
        /\ \A k \in 1..config.retry_attempts : sp.script[k] # "ok")
       => (~sp.result /\ Posts(trace) = config.retry_attempts)

GaveUpAfterMixedFailures ==
    /\ sp.pc = "ret"
    /\ ~sp.result
    /\ trace = <<"post_exc", "sleep", "post_err", "post_exc">>

\* C8: a wait lies between any two consecutive transport calls of
\* send_photo, and none follows the last one.
WaitBetweenAttempts ==
    job.pc = "send" =>
      /\ \A k \in 1..(Len(trace) - 1) : ~(IsPost(trace[k]) /\ IsPost(trace[k + 1]))
      /\ sp.pc = "ret" /\ trace # <<>> => trace[Len(trace)] # "sleep"

\* C9: whenever a delivery to a configured destination is counted in
\* telegram_failed, the transport has been called retry_attempts times for
\* that artifact.
FinalFailureAfterRetries ==
    [][(/\ stats'.telegram_failed > stats.telegram_failed
        /\ (job.pc = "send" => job.path.job \in config.region_chats))
       => Posts(trace') = config.retry_attempts]_vars

\* C20: every failed capture attempt is counted: stats.failed_screenshots is
\* the number of capture attempts that failed, driver failures included.
FailuresCounted ==
    stats.failed_screenshots = job.failures

\* C22: a job execution removes a file only if it is the artifact it has
\* just delivered, the transport has answered 200 for it and the
\* delete_after_send of the job is set; after a failed delivery, or without
\* delivery, the artifact stays in the directory.
DeleteOnlyAfterSend ==
    [][\A f \in disk \ disk' :
         /\ f = job.path
         /\ trace' # <<>>
         /\ trace'[Len(trace')] = "post_200"
         /\ IF job.pc = "send" THEN config.delete_after_send
                               ELSE config.web_delete_after_send]_vars

KeptAfterFailedDelivery ==
    /\ job.pc = "idle"
    /\ config.delete_after_send
    /\ stats.telegram_sent = 1
    /\ stats.telegram_failed = 1
    /\ Cardinality(disk) = 1

\* C23: the artifact in delivery is always the one the execution in
\* progress has written: its age is the time this delivery has waited
\* between attempts. A file an earlier execution left behind, delivered or
\* not, is never handed to the delivery again.
NoRedelivery ==
    job.pc \in {"send", "web_post"} =>
      now - mtime(job.path) = (Len(trace) - Posts(trace)) * config.retry_delay

NewArtifactAfterFailedOne ==
    /\ job.pc = "send"
    /\ stats.telegram_failed >= 1
    /\ \E g \in disk : g.job = job.path.job /\ mtime(g) < mtime(job.path)

\* C24: the warning for an unknown reference is logged once in a run: no
\* step logs it for a reference it has already been logged for.
WarnedOncePerReference ==
    [][/\ (/\ job.pc = "region"
           /\ job'.i = job.i + 1
           /\ job.i <= Len(config.active_regions)
           /\ config.active_regions[job.i] \notin Range(config.regions))
          => Unknown("region", config.active_regions[job.i]) \notin job.warned
       /\ (/\ job.pc = "url"
           /\ job'.i = job.i + 1
           /\ job.i <= Len(config.active_urls)
           /\ config.active_urls[job.i] \notin config.web_urls)
          => Unknown("url", config.active_urls[job.i]) \notin job.warned
       /\ (/\ sp.pc = "enter"
           /\ sp'.pc = "ret"
           /\ job.path.job \notin config.region_chats)
          => Unknown("chat", job.path.job) \notin job.warned]_vars

\* C27: the step in which a delivery comes to its final outcome adds 1 to
\* exactly one of telegram_sent and telegram_failed, and no other step
\* changes either: their sum is the number of completed deliveries.
DeliveryAccounting ==
    [][LET sent == stats'.telegram_sent - stats.telegram_sent
           failed == stats'.telegram_failed - stats.telegram_failed
           completes == \/ job.pc = "send" /\ job'.pc # "send"
                        \/ job.pc = "web_post" /\ job'.pc # "web_post"
       IN  IF completes
             THEN <<sent, failed>> \in {<<1, 0>>, <<0, 1>>}
             ELSE sent = 0 /\ failed = 0]_vars

BothOutcomesCounted ==
    /\ job.pc = "url"
    /\ job.runs = 2
    /\ stats.telegram_sent = 1
    /\ stats.telegram_failed = 1
    /\ Posts(trace) = 1

\* C28: a step of send_photo calls the transport, waits or logs, and
\* nothing else: the directory, the stats, the running flag and the locals
\* of the calling job are as before; the file is removed by the job only.
SendPhotoFrame ==
    [][(sp.pc \in {"enter", "try", "wait"} /\ sp' # sp)
       => /\ disk' = disk
          /\ stats' = stats
          /\ running' = running
          /\ [job' EXCEPT !.warned = job.warned] = job]_vars

SentAndStillThere ==
    /\ sp.pc = "ret"
    /\ sp.result
    /\ config.delete_after_send
    /\ job.path \in disk
    /\ Posts(trace) = 2

\* C32: stats.last_screenshot changes only at the end of an execution of
\* take_screenshot that has produced at least one artifact.
LastScreenshotIsLastProduced ==
    [][stats'.last_screenshot # stats.last_screenshot
       => (job.pc = "region" /\ job.taken >= 1)]_vars

\* C33: for a region without a chat send_photo returns False without a
\* transport call; take_screenshot then counts telegram_failed, counts the
\* capture as taken, which its end adds to total_screenshots, and leaves
\* the file in the directory.
NoChatNoAttempt ==
    [][/\ (/\ job.pc = "send"
           /\ job'.pc # "send"
           /\ job.path.job \notin config.region_chats)
          => /\ trace = <<>>
             /\ ~sp.result
             /\ stats'.telegram_failed = stats.telegram_failed + 1
             /\ stats'.telegram_sent = stats.telegram_sent
             /\ job'.taken = job.taken + 1
             /\ job.path \in disk'
       /\ (job.pc = "region" /\ job'.pc = "idle")
          => stats'.total_screenshots = stats.total_screenshots + job.taken]_vars

CountedWithoutChat ==
    /\ job.pc = "idle"
    /\ job.runs = 1
    /\ stats.total_screenshots = 1
    /\ stats.telegram_failed = 1
    /\ Unknown("chat", Custom) \in job.warned
    /\ \E f \in disk : f.job = Custom

\* C36: a capture never writes a path that the artifact of another capture
\* still has: the file saved by take_screenshot or take_web_screenshots is
\* not in the directory before the save.
NoOverwrite ==
    [][(\/ job.pc = "region" /\ (job'.pc = "send" \/ job'.taken = job.taken + 1)
        \/ job.pc = "url" /\ (job'.pc = "web_post" \/ job'.i = job.i + 1)
                          /\ job.i <= Len(config.active_urls)
                          /\ config.active_urls[job.i] \in config.web_urls
                          /\ stats'.failed_screenshots = stats.failed_screenshots)
       => job'.path \notin disk]_vars

-----------------------------------------------------------------------------
(* The retention sweep, step by step *)

\* 24 * 60 * 60
DaySeconds == 86400
\* artifacts in the output directory when the first sweep starts
MaxDisk == 3
\* sweeps followed in one run
MaxSweeps == 2

WebX == <<"web", "x">>
Legacy == <<"screenshot">>

\* the configurations the sweep is run with: the default regions, or a
\* region added as "web_x", and max_files
SweepConfigs ==
    {[DefaultConfig EXCEPT !.regions = rg, !.max_files = mf] :
        rg \in {<<FullScreen, Custom>>, <<FullScreen, WebX>>},
        mf \in {1, 2}}

\* ages of the artifacts found in the directory: new, one second old,
\* exactly keep_days old, one and two seconds older than keep_days
DiskAges ==
    {0, 1} \cup {config.keep_days * DaySeconds + a : a \in 0..2}

DiskFiles ==
    {Artifact(j, now - a) : j \in {FullScreen, WebX}, a \in DiskAges}

IdleSweepCall ==
    [pc |-> "idle", files |-> <<>>, i |-> 0, to_remove |-> <<>>,
     deleted_count |-> 0, cutoff |-> 0, failed |-> FALSE, runs |-> 0,
     before |-> {}]

\* patterns = ["<region>_*.png" for each region] + ["screenshot_*.png",
\* "web_*.png"], each given by the words before the "*"
Patterns == config.regions \o <<Legacy, <<"web">>>>

\* what a word of a pattern stands for in Path.glob: "[1]" is the set of
\* characters {1}, and any other word of the model is itself
GlobWord(w) == IF w = "[1]" THEN "1" ELSE w

\* name_<timestamp>.png matches pattern_*.png
Matches(p, f) ==
    /\ Len(p) <= Len(f.job)
    /\ \A k \in 1..Len(p) : f.job[k] = GlobWord(p[k])

Candidate(f) == \E k \in 1..Len(Patterns) : Matches(Patterns[k], f)

\* the orders in which the directory can list the files of d
Orders(d) ==
    {o \in [1..Cardinality(d) -> d] :
        \A a, b \in 1..Cardinality(d) : a # b => o[a] # o[b]}

RECURSIVE Glob(_, _)
\* files = []; for pattern in patterns: files.extend(output_dir.glob(pattern))
Glob(order, patterns) ==
    IF patterns = <<>>
      THEN <<>>
      ELSE SelectSeq(order, LAMBDA f : Matches(Head(patterns), f))
           \o Glob(order, Tail(patterns))

RECURSIVE InsertByMtime(_, _)
\* x put behind the elements of the sorted s that are not newer than x
InsertByMtime(x, s) ==
    IF s = <<>> \/ mtime(s[Len(s)]) <= mtime(x)
      THEN Append(s, x)
      ELSE Append(InsertByMtime(x, SubSeq(s, 1, Len(s) - 1)), s[Len(s)])

RECURSIVE SortByMtime(_)
\* files.sort(key=lambda x: x.stat().st_mtime): stable, oldest first
SortByMtime(s) ==
    IF s = <<>>
      THEN <<>>
      ELSE InsertByMtime(s[Len(s)], SortByMtime(SubSeq(s, 1, Len(s) - 1)))

\* files_to_remove = remaining_files[:len(remaining_files) - max_files]
FilesToRemove(remaining) ==
    SubSeq(remaining, 1, Len(remaining) - config.max_files)

InitSweepCall ==
    /\ sw = IdleSweepCall
    /\ locked \in {l \in SUBSET disk : Cardinality(l) <= 1}

\* cleanup_old_screenshots(): current_time, cutoff_time, deleted_count = 0;
\* sw.before remembers the directory as the call found it
cleanup_begin ==
    /\ sw.pc \in {"idle", "done"}
    /\ sw.runs < MaxSweeps
    /\ sw' = [IdleSweepCall EXCEPT
                !.pc = "glob",
                !.cutoff = now - config.keep_days * DaySeconds,
                !.runs = sw.runs + 1,
                !.before = disk]
    /\ UNCHANGED <<config, now, stats, disk, ctrlVars, sendVars, locked>>

\* the globs, over a directory that lists its files in some order
cleanup_glob ==
    /\ sw.pc = "glob"
    /\ \E order \in Orders(disk) :
         sw' = [sw EXCEPT !.pc = "sort", !.files = Glob(order, Patterns)]
    /\ UNCHANGED <<config, now, stats, disk, ctrlVars, sendVars, locked>>

\* files.sort(...): stat of a listed file that is gone raises
cleanup_sort ==
    /\ sw.pc = "sort"
    /\ sw' = IF Range(sw.files) \subseteq disk
               THEN [sw EXCEPT !.pc = "age", !.files = SortByMtime(sw.files),
                               !.i = 1]
               ELSE [sw EXCEPT !.pc = "except"]
    /\ UNCHANGED <<config, now, stats, disk, ctrlVars, sendVars, locked>>

\* one pass of "for file_path in files": stat, and unlink if older than
\* the cutoff; stat of a file that is gone and unlink of a locked file raise
cleanup_age ==
    /\ sw.pc = "age"
    /\ sw.i <= Len(sw.files)
    /\ LET f == sw.files[sw.i] IN
         IF f \notin disk
           THEN sw' = [sw EXCEPT !.pc = "except"] /\ UNCHANGED disk
           ELSE IF mtime(f) < sw.cutoff
                  THEN IF f \in locked
                         THEN sw' = [sw EXCEPT !.pc = "except"] /\ UNCHANGED disk
                         ELSE /\ disk' = disk \ {f}
                              /\ sw' = [sw EXCEPT !.i = @ + 1,
                                                  !.deleted_count = @ + 1]
                  ELSE sw' = [sw EXCEPT !.i = @ + 1] /\ UNCHANGED disk
    /\ UNCHANGED <<config, now, stats, ctrlVars, sendVars, locked>>

\* remaining_files = [f for f in files if f.exists()] and the test against
\* max_files
cleanup_remaining ==
    /\ sw.pc = "age"
    /\ sw.i > Len(sw.files)
    /\ LET remaining == SelectSeq(sw.files, LAMBDA f : f \in disk) IN
         sw' = IF Len(remaining) > config.max_files
                 THEN [sw EXCEPT !.pc = "count", !.i = 1,
                                 !.to_remove = FilesToRemove(remaining)]
                 ELSE [sw EXCEPT !.pc = "finish"]
    /\ UNCHANGED <<config, now, stats, disk, ctrlVars, sendVars, locked>>

\* one pass of "for file_path in files_to_remove": unlink, which raises for
\* a file that is gone or locked
cleanup_count ==
    /\ sw.pc = "count"
    /\ sw.i <= Len(sw.to_remove)
    /\ LET f == sw.to_remove[sw.i] IN
         IF f \notin disk \/ f \in locked
           THEN sw' = [sw EXCEPT !.pc = "except"] /\ UNCHANGED disk
           ELSE /\ disk' = disk \ {f}
                /\ sw' = [sw EXCEPT !.i = @ + 1, !.deleted_count = @ + 1]
    /\ UNCHANGED <<config, now, stats, ctrlVars, sendVars, locked>>

\* the log line and stats["last_cleanup"] = datetime.now()
cleanup_finish ==
    /\ \/ sw.pc = "finish"
       \/ sw.pc = "count" /\ sw.i > Len(sw.to_remove)
    /\ stats' = [stats EXCEPT !.last_cleanup = now]
    /\ sw' = [sw EXCEPT !.pc = "done"]
    /\ UNCHANGED <<config, now, disk, ctrlVars, sendVars, locked>>

\* cleanup_old_screenshots as it would be with the assignment of
\* stats["last_cleanup"] after the try statement
cleanup_except_stamps ==
    /\ sw.pc = "except"
    /\ sw' = [sw EXCEPT !.pc = "done", !.failed = TRUE]
    /\ stats' = [stats EXCEPT !.last_cleanup = now]
    /\ UNCHANGED <<config, now, disk, ctrlVars, sendVars, locked>>

\* except Exception: a warning is logged and the sweep returns
cleanup_except ==
    /\ sw.pc = "except"
    /\ sw' = [sw EXCEPT !.pc = "done", !.failed = TRUE]
    /\ UNCHANGED <<config, now, stats, disk, ctrlVars, sendVars, locked>>

\* another process removes a file of the directory while the sweep runs
file_disappears ==
    /\ sw.pc \notin {"idle", "done"}
    /\ \E f \in disk :
         /\ disk' = disk \ {f}
         /\ locked' = locked \ {f}
    /\ UNCHANGED <<config, now, stats, ctrlVars, sendVars, sw>>

\* the sweep in a directory that no other process touches
NextSweepAlone ==
    \/ cleanup_begin
    \/ cleanup_glob
    \/ cleanup_sort
    \/ cleanup_age
    \/ cleanup_remaining
    \/ cleanup_count
    \/ cleanup_finish
    \/ cleanup_except

NextSweep ==
    \/ cleanup_begin
    \/ cleanup_glob
    \/ cleanup_sort
    \/ cleanup_age
    \/ cleanup_remaining
    \/ cleanup_count
    \/ cleanup_finish
    \/ cleanup_except
    \/ file_disappears

-----------------------------------------------------------------------------
(* The control loop calling the sweep step by step *)

\* the loop is run with a region added as "web_x", whose files the globs
\* list twice
LoopSweepConfigs ==
    {[DefaultConfig EXCEPT !.regions = <<FullScreen, WebX>>,
                           !.max_files = mf, !.web_interval = 15,
                           !.telegram_enabled = FALSE] : mf \in {1, 2}}

\* the files the loop finds in the directory: one of full_screen older
\* than keep_days, two of web_x
LoopSweepFiles ==
    {Artifact(FullScreen, now - config.keep_days * DaySeconds - 1),
     Artifact(WebX, now - 1), Artifact(WebX, now)}

\* the sweep is not due
loop_cleanup_skip ==
    /\ pc = "cleanup"
    /\ ~SweepDue
    /\ pc' = "health"
    /\ UNCHANGED <<disk, sendVars, sweepVars, outerVars, job_seconds, config, lifeVars>>
    /\ UNCHANGED <<running, now, current_time, last_cleanup,
                   last_health_check, last_web_screenshot, stats, calls,
                   loop_errors>>

\* the sweep is due: self.cleanup_old_screenshots() is entered
loop_cleanup_call ==
    /\ pc = "cleanup"
    /\ SweepDue
    /\ sw.runs < MaxSweeps
    /\ pc' = "sweeping"
    /\ sw' = [sw EXCEPT !.pc = "idle"]
    /\ UNCHANGED <<disk, sendVars, locked, outerVars, job_seconds, config, lifeVars>>
    /\ UNCHANGED <<running, now, current_time, last_cleanup,
                   last_health_check, last_web_screenshot, stats, calls,
                   loop_errors>>

\* the body of cleanup_old_screenshots, run by the loop thread
loop_cleanup_body ==
    /\ pc = "sweeping"
    /\ \/ sw.pc = "idle" /\ cleanup_begin
       \/ cleanup_glob
       \/ cleanup_sort
       \/ cleanup_age
       \/ cleanup_remaining
       \/ cleanup_count
       \/ cleanup_finish
       \/ cleanup_except

\* cleanup_old_screenshots() has returned: last_cleanup = current_time
loop_cleanup_return ==
    /\ pc = "sweeping"
    /\ sw.pc = "done"
    /\ calls' = [calls EXCEPT !.sweep = @ + 1]
    /\ last_cleanup' = current_time
    /\ pc' = "health"
    /\ UNCHANGED <<disk, sendVars, sweepVars, outerVars, job_seconds, config, lifeVars>>
    /\ UNCHANGED <<running, now, current_time, last_health_check,
                   last_web_screenshot, stats, loop_errors>>

NextLoopSweep ==
    \/ start
    \/ stop
    \/ loop_begin
    \/ loop_top
    \/ loop_take_screenshot
    \/ loop_web_skip
    \/ loop_web_return
    \/ loop_web_raise
    \/ loop_cleanup_skip
    \/ loop_cleanup_call
    \/ loop_cleanup_body
    \/ loop_cleanup_return
    \/ loop_health_check
    \/ loop_sleep
    \/ loop_except

-----------------------------------------------------------------------------
(* The retention sweep: claims *)

\* C10: after a sweep has returned, no artifact that matches its patterns
\* and can be deleted is older than keep_days.
AgeRule ==
    sw.pc = "done" =>
      \A f \in disk :
        (Candidate(f) /\ f \notin locked)
          => now - mtime(f) <= config.keep_days * DaySeconds

\* f is not older than keep_days
WithinAge(f) == now - mtime(f) <= config.keep_days * DaySeconds

\* C11: with max_files = N and N + k artifacts, all within keep_days, the
\* sweep deletes exactly the k oldest and the N newest survive, whatever the
\* region names.
CountRule ==
    (/\ sw.pc = "done"
     /\ sw.runs = 1
     /\ \A f \in sw.before : Candidate(f) /\ WithinAge(f))
    => /\ disk \subseteq sw.before
       /\ Cardinality(disk) =
            (IF Cardinality(sw.before) > config.max_files
               THEN config.max_files ELSE Cardinality(sw.before))
       /\ \A f \in disk, g \in sw.before \ disk : mtime(g) <= mtime(f)

\* C12: a sweep that directly follows another, with nothing added and the
\* clock unchanged, deletes nothing.
SweepIdempotent ==
    (sw.pc = "done" /\ sw.runs >= 2) => disk = sw.before

\* C13: the sweep deletes no artifact within keep_days when at most
\* max_files of them are within keep_days, and otherwise only the oldest of
\* them.
WithinAgeKept ==
    (sw.pc = "done" /\ sw.runs = 1) =>
      LET young == {f \in sw.before : WithinAge(f)} IN
        /\ Cardinality(young) <= config.max_files => young \subseteq disk
        /\ \A f \in young \cap disk, g \in young \ disk : mtime(g) <= mtime(f)

\* C14: a file whose stat or unlink fails is skipped and every other listed
\* file is still handled: with region names whose patterns do not overlap,
\* no other listed file that can be deleted survives the sweep older than
\* keep_days.
BestEffort ==
    (sw.pc = "done" /\ config.regions = <<FullScreen, Custom>>) =>
      \A f \in Range(sw.files) \cap disk : f \notin locked => WithinAge(f)

-----------------------------------------------------------------------------
(* start() and stop(), step by step, and the loop threads they leave *)

\* start() and stop() calls followed in one run
MaxCalls == 4
\* self.thread.join(timeout=5)
JoinTimeout == 5
\* requests.post(url, data=data, timeout=10) of send_text_message
PostTimeout == 10

\* the configurations start() and stop() are run with
LifeConfigs ==
    {[DefaultConfig EXCEPT !.telegram_enabled = te, !.region_chats = rc] :
        te \in BOOLEAN, rc \in {{FullScreen}, {FullScreen, Custom}}}

\* no call in progress; early: the last call returned at its first test
IdleMain ==
    [pc |-> "idle", op |-> "none", early |-> FALSE, t0 |-> 0, i |-> 0,
     calls |-> 0]

InitNotes ==
    [warnings |-> 0, startup_msgs |-> 0, shutdown_msgs |-> 0, stopped |-> 0,
     pid_file |-> TRUE]

IdleLife ==
    /\ main = IdleMain
    /\ threads = <<>>
    /\ counting = <<>>
    /\ thread = 0
    /\ notes = InitNotes

\* the locals and counters of screenshot_loop, which only Spec follows
loopLocals ==
    <<pc, current_time, last_cleanup, last_health_check,
      last_web_screenshot, calls, loop_errors, job_seconds>>

\* deliveries the loop threads count in one run
MaxDeliveries == 2

\* a loop thread that is in no update of a counter
NoCount == [at |-> "none", c |-> "none", v |-> 0]

\* threading.Thread.is_alive()
is_alive(i) == threads[i] # "exited"

\* start() as it would be without its test of self.running
start_call_unguarded ==
    /\ main.pc = "idle"
    /\ main.calls < MaxCalls
    /\ running' = TRUE
    /\ threads' = Append(threads, "test")
    /\ counting' = Append(counting, NoCount)
    /\ thread' = Len(threads) + 1
    /\ main' = [pc |-> IF config.telegram_enabled THEN "startup" ELSE "idle",
                op |-> "start", early |-> FALSE, t0 |-> now,
                i |-> Cardinality(config.region_chats),
                calls |-> main.calls + 1]
    /\ UNCHANGED <<config, now, stats, disk, loopLocals, sendVars, sweepVars, outerVars,
                   notes>>

\* start(): a warning and return if already running; else the flag is set
\* and a new loop thread is started
start_call ==
    /\ main.pc = "idle"
    /\ main.calls < MaxCalls
    /\ IF running
         THEN /\ notes' = [notes EXCEPT !.warnings = @ + 1]
              /\ main' = [main EXCEPT !.op = "start", !.early = TRUE,
                                      !.t0 = now, !.calls = @ + 1]
              /\ UNCHANGED <<running, threads, counting, thread>>
         ELSE /\ running' = TRUE
              /\ threads' = Append(threads, "test")
              /\ counting' = Append(counting, NoCount)
              /\ thread' = Len(threads) + 1
              /\ main' = [pc |-> IF config.telegram_enabled
                                   THEN "startup" ELSE "idle",
                          op |-> "start", early |-> FALSE, t0 |-> now,
                          i |-> Cardinality(config.region_chats),
                          calls |-> main.calls + 1]
              /\ UNCHANGED notes
    /\ UNCHANGED <<config, now, stats, disk, loopLocals, sendVars, sweepVars, outerVars>>

\* send_startup_message(): one send_text_message per chat, which returns at
\* once or after its timeout; start() then only waits for the flag
start_message ==
    /\ main.pc = "startup"
    /\ \E d \in {0, PostTimeout} : now' = now + d
    /\ notes' = [notes EXCEPT !.startup_msgs = @ + 1]
    /\ main' = [main EXCEPT !.i = @ - 1,
                            !.pc = IF main.i = 1 THEN "idle" ELSE "startup"]
    /\ UNCHANGED <<config, stats, disk, loopVars, sendVars, sweepVars, outerVars,
                   threads, counting, thread>>

\* stop() as it would be without its test of self.running
stop_call_unguarded ==
    /\ main.pc = "idle"
    /\ main.calls < MaxCalls
    /\ main' = [pc |-> IF config.telegram_enabled THEN "shutdown" ELSE "clear",
                op |-> "stop", early |-> ~running, t0 |-> now,
                i |-> Cardinality(config.region_chats),
                calls |-> main.calls + 1]
    /\ UNCHANGED <<config, now, stats, disk, loopVars, sendVars, sweepVars, outerVars,
                   threads, counting, thread, notes>>

\* stop(): return if not running; else the body that follows
stop_call ==
    /\ main.pc = "idle"
    /\ main.calls < MaxCalls
    /\ main' = IF ~running
                 THEN [main EXCEPT !.op = "stop", !.early = TRUE, !.t0 = now,
                                   !.calls = @ + 1]
                 ELSE [pc |-> IF config.telegram_enabled
                                THEN "shutdown" ELSE "clear",
                       op |-> "stop", early |-> FALSE, t0 |-> now,
                       i |-> Cardinality(config.region_chats),
                       calls |-> main.calls + 1]
    /\ UNCHANGED <<config, now, stats, disk, loopVars, sendVars, sweepVars, outerVars,
                   threads, counting, thread, notes>>

\* send_shutdown_message(): one send_text_message per chat
stop_message ==
    /\ main.pc = "shutdown"
    /\ \E d \in {0, PostTimeout} : now' = now + d
    /\ notes' = [notes EXCEPT !.shutdown_msgs = @ + 1]
    /\ main' = [main EXCEPT !.i = @ - 1,
                            !.pc = IF main.i = 1 THEN "clear" ELSE "shutdown"]
    /\ UNCHANGED <<config, stats, disk, loopVars, sendVars, sweepVars, outerVars,
                   threads, counting, thread>>

\* self.running = False; if self.thread and self.thread.is_alive(): join
stop_clear ==
    /\ main.pc = "clear"
    /\ running' = FALSE
    /\ main' = [main EXCEPT
                  !.pc = IF thread # 0 /\ is_alive(thread)
                           THEN "join" ELSE "pid"]
    /\ UNCHANGED <<config, now, stats, disk, loopLocals, sendVars, sweepVars, outerVars,
                   threads, counting, thread, notes>>

\* join(timeout=5) returns because the loop thread has ended
stop_join_returns ==
    /\ main.pc = "join"
    /\ ~is_alive(thread)
    /\ main' = [main EXCEPT !.pc = "pid"]
    /\ UNCHANGED <<config, now, stats, disk, loopVars, sendVars, sweepVars, outerVars,
                   threads, counting, thread, notes>>

\* join(timeout=5) returns after its timeout, the loop thread still at
\* work or asleep
stop_join_timeout ==
    /\ main.pc = "join"
    /\ threads[thread] \in {"work", "wait"}
    /\ now' = now + JoinTimeout
    /\ main' = [main EXCEPT !.pc = "pid"]
    /\ UNCHANGED <<config, stats, disk, loopVars, sendVars, sweepVars, outerVars,
                   threads, counting, thread, notes>>

\* remove_pid_file() and the log line "Screenshot daemon stopped"
stop_remove_pid ==
    /\ main.pc = "pid"
    /\ notes' = [notes EXCEPT !.pid_file = FALSE, !.stopped = @ + 1]
    /\ main' = [main EXCEPT !.pc = "idle"]
    /\ UNCHANGED <<config, now, stats, disk, loopVars, sendVars, sweepVars, outerVars,
                   threads, counting, thread>>

\* a loop thread at "while self.running"
thread_test(i) ==
    /\ threads[i] = "test"
    /\ threads' = [threads EXCEPT ![i] = IF running THEN "work" ELSE "exited"]
    /\ UNCHANGED <<config, now, stats, disk, loopVars, sendVars, sweepVars, outerVars,
                   main, thread, notes, counting>>

\* a loop thread in take_screenshot, at self.stats["telegram_sent"] += 1 or
\* self.stats["telegram_failed"] += 1: it reads the counter
thread_count_read(i) ==
    /\ threads[i] = "work"
    /\ counting[i].at = "none"
    /\ config.telegram_enabled
    /\ stats.telegram_sent + stats.telegram_failed < MaxDeliveries
    /\ \E c \in {"telegram_sent", "telegram_failed"} :
         counting' = [counting EXCEPT ![i] = [at |-> "read", c |-> c,
                                              v |-> stats[c]]]
    /\ UNCHANGED <<config, now, stats, disk, loopVars, sendVars, sweepVars, outerVars,
                   main, threads, thread, notes>>

\* and stores what it has read, plus one
thread_count_write(i) ==
    /\ threads[i] = "work"
    /\ counting[i].at = "read"
    /\ stats' = [stats EXCEPT ![counting[i].c] = counting[i].v + 1]
    /\ counting' = [counting EXCEPT ![i] = [at |-> "counted", c |-> "none",
                                            v |-> 0]]
    /\ UNCHANGED <<config, now, disk, loopVars, sendVars, sweepVars, outerVars,
                   main, threads, thread, notes>>

\* after the for loop, at self.stats["total_screenshots"] +=
\* screenshots_taken: it reads the counter
thread_total_read(i) ==
    /\ threads[i] = "work"
    /\ counting[i].at = "counted"
    /\ counting' = [counting EXCEPT ![i] = [at |-> "total",
                                            c |-> "total_screenshots",
                                            v |-> stats.total_screenshots]]
    /\ UNCHANGED <<config, now, stats, disk, loopVars, sendVars, sweepVars, outerVars,
                   main, threads, thread, notes>>

\* and stores what it has read, plus the one capture taken
thread_total_write(i) ==
    /\ threads[i] = "work"
    /\ counting[i].at = "total"
    /\ stats' = [stats EXCEPT !.total_screenshots = counting[i].v + 1]
    /\ counting' = [counting EXCEPT ![i] = [at |-> "done", c |-> "none",
                                            v |-> 0]]
    /\ UNCHANGED <<config, now, disk, loopVars, sendVars, sweepVars, outerVars,
                   main, threads, thread, notes>>

\* a loop thread ends the jobs of its iteration, or leaves them by an
\* exception, and goes to sleep
thread_work(i) ==
    /\ threads[i] = "work"
    /\ counting[i].at \in {"none", "done"}
    /\ threads' = [threads EXCEPT ![i] = "wait"]
    /\ counting' = [counting EXCEPT ![i] = NoCount]
    /\ UNCHANGED <<config, now, stats, disk, loopVars, sendVars, sweepVars, outerVars,
                   main, thread, notes>>

\* the time.sleep of a loop thread ends
thread_wake(i) ==
    /\ threads[i] = "wait"
    /\ threads' = [threads EXCEPT ![i] = "test"]
    /\ UNCHANGED <<config, now, stats, disk, loopVars, sendVars, sweepVars, outerVars,
                   main, thread, notes, counting>>

thread_step == \E i \in 1..Len(threads) :
    \/ thread_test(i)
    \/ thread_work(i)
    \/ thread_wake(i)

\* the updates of the counters by the loop threads, which SpecCount follows
thread_count == \E i \in 1..Len(threads) :
    \/ thread_count_read(i)
    \/ thread_count_write(i)
    \/ thread_total_read(i)
    \/ thread_total_write(i)

NextLife ==
    \/ start_call
    \/ start_message
    \/ stop_call
    \/ stop_message
    \/ stop_clear
    \/ stop_join_returns
    \/ stop_join_timeout
    \/ stop_remove_pid
    \/ thread_step

\* the configuration the counters are followed with
CountConfigs ==
    {[DefaultConfig EXCEPT !.region_chats = {FullScreen}]}

NextCount ==
    \/ start_call
    \/ start_message
    \/ stop_call
    \/ stop_message
    \/ stop_clear
    \/ stop_join_returns
    \/ stop_join_timeout
    \/ stop_remove_pid
    \/ thread_step
    \/ thread_count

-----------------------------------------------------------------------------
(* start() and stop(): claims *)

\* C15: start() called while running only logs a warning: no thread is
\* started, and the flag, the thread reference and the stats stay as they
\* were.
StartWhileRunning ==
    [][(/\ running
        /\ main.pc = "idle"
        /\ main'.op = "start"
        /\ main'.calls = main.calls + 1)
       => (/\ main'.pc = "idle"
           /\ running'
           /\ threads' = threads
           /\ thread' = thread
           /\ stats' = stats
           /\ notes' = [notes EXCEPT !.warnings = @ + 1])]_vars

StartedTwice ==
    /\ main.op = "start"
    /\ main.early
    /\ running
    /\ Len(threads) = 1
    /\ notes.warnings = 1

\* C16: a stop() called when a stop() has completed changes nothing and
\* does nothing, and when stop() returns the running flag is false.
StopRepeatable ==
    [][/\ (/\ ~running
           /\ main.pc = "idle"
           /\ main'.op = "stop"
           /\ main'.calls = main.calls + 1)
          => (/\ main'.pc = "idle"
              /\ ~running'
              /\ notes' = notes
              /\ threads' = threads
              /\ thread' = thread
              /\ now' = now)
       /\ (main' # main /\ main'.op = "stop" /\ main'.pc = "idle")
          => ~running']_vars

StoppedTwice ==
    /\ main.op = "stop"
    /\ main.early
    /\ main.pc = "idle"
    /\ notes.stopped = 1
    /\ notes.shutdown_msgs = Cardinality(config.region_chats)

\* C17: stop() clears the flag and interrupts nothing: the step that clears
\* it leaves the loop thread where it is, and once it is cleared the thread
\* goes from the loop's test only to its end.
CooperativeStop ==
    [][/\ (running /\ ~running')
          => (pc' = pc /\ stats' = stats /\ calls' = calls /\ now' = now)
       /\ (~running /\ pc = "top") => pc' \in {"top", "done"}
       /\ (~running /\ pc \in {"shot", "web", "cleanup", "health", "sleep"})
          => pc' # "done"]_vars

StoppedInMidIteration ==
    /\ ~running
    /\ pc = "sleep"
    /\ calls.shot >= 2
    /\ calls.health >= 2

\* C18: stop() returns, and the process can exit, within the join timeout
\* plus one retry_delay of its call, wherever the loop thread is waiting.
StopBounded ==
    (main.op = "stop" /\ main.pc = "idle" /\ ~main.early)
    => now - main.t0 <= JoinTimeout + config.retry_delay

\* C19: no two loop threads are at work at the same time, whatever the
\* sequence of start() and stop() calls.
AtMostOneInFlight ==
    Cardinality({i \in 1..Len(threads) : threads[i] = "work"}) <= 1

\* C35: no step lowers one of the four counters of self.stats, whatever
\* the start() and stop() calls, and whenever a loop thread is between two
\* iterations telegram_sent + telegram_failed <= total_screenshots.
CountersCumulative ==
    [][/\ \A c \in {"total_screenshots", "failed_screenshots",
                     "telegram_sent", "telegram_failed"} : stats'[c] >= stats[c]
       /\ (\E i \in 1..Len(threads') : threads'[i] \in {"test", "wait"})
          => stats'.telegram_sent + stats'.telegram_failed
                <= stats'.total_screenshots]_vars

-----------------------------------------------------------------------------
(* The commands of main() and PID_FILE *)

\* processes followed in one run
MaxProcs == 4

\* PID_FILE does not exist
NoPidFile == 0

\* the variables the commands leave alone
daemonVars == <<config, now, stats, disk, loopVars, lifeVars, sendVars,
                sweepVars, status, monitor>>

\* ScreenshotDaemon(config) in a new process: create_pid_file() writes
\* os.getpid() over whatever PID_FILE holds; if the write fails a warning
\* is logged and the file is as before
create_pid_file(f) ==
    {Len(procs) + 1, f}

\* signal_handler in process p: stop(), which returns at once if the
\* daemon of the process is not running and else ends with
\* remove_pid_file(), whose failure is only logged; then sys.exit(0)
signal_handler(p) ==
    /\ procs' = [procs EXCEPT ![p] = "exited"]
    /\ pidfile' \in IF procs[p] = "daemon" THEN {NoPidFile, pidfile}
                                           ELSE {pidfile}

\* the command start: daemon = ScreenshotDaemon(config); daemon.start()
main_start ==
    /\ Len(procs) < MaxProcs
    /\ pidfile' \in create_pid_file(pidfile)
    /\ procs' = Append(procs, "daemon")
    /\ UNCHANGED daemonVars

\* the command monitor: daemon = ScreenshotDaemon(config);
\* daemon.monitor_mode(), which never starts the loop
main_monitor ==
    /\ Len(procs) < MaxProcs
    /\ pidfile' \in create_pid_file(pidfile)
    /\ procs' = Append(procs, "monitor")
    /\ UNCHANGED daemonVars

\* the command stop: SIGTERM to the PID in PID_FILE; if there is no such
\* process PID_FILE is removed
main_stop ==
    /\ pidfile # NoPidFile
    /\ IF procs[pidfile] = "exited"
         THEN pidfile' = NoPidFile /\ UNCHANGED procs
         ELSE signal_handler(pidfile)
    /\ UNCHANGED daemonVars

\* the command status: os.kill(pid, 0); if there is no such process
\* PID_FILE is removed
main_status ==
    /\ pidfile # NoPidFile
    /\ pidfile' = IF procs[pidfile] = "exited" THEN NoPidFile ELSE pidfile
    /\ UNCHANGED procs
    /\ UNCHANGED daemonVars

\* Ctrl-C in the terminal of process p: SIGINT has the same handler
interrupt ==
    /\ \E p \in 1..Len(procs) :
         /\ procs[p] # "exited"
         /\ signal_handler(p)
    /\ UNCHANGED daemonVars

NextPid ==
    \/ main_start
    \/ main_monitor
    \/ main_stop
    \/ main_status
    \/ interrupt

\* C30: while the loop of a daemon is running, PID_FILE, if it exists,
\* holds the PID of the process of that daemon.
PidFileNamesDaemon ==
    \A p \in 1..Len(procs) :
        (procs[p] = "daemon" /\ pidfile # NoPidFile) => pidfile = p

-----------------------------------------------------------------------------
(* get_status() *)

\* the configuration get_status is followed with
StatusConfigs ==
    {[DefaultConfig EXCEPT !.active_regions = <<Ghost, Custom>>,
                           !.retry_attempts = ra] : ra \in 1..2}

\* no dictionary returned yet
NoStatus ==
    [returned |-> FALSE, running |-> FALSE, stats |-> InitStats,
     seen |-> InitStats]

\* get_status(): "running" holds the value of self.running, "stats" holds
\* the dictionary self.stats itself, not a copy; seen keeps what self.stats
\* held when the call returned
get_status ==
    /\ status' = [returned |-> TRUE, running |-> running,
                  stats |-> "self.stats", seen |-> stats]
    /\ UNCHANGED <<config, now, stats, disk, loopVars, lifeVars, sendVars,
                   sweepVars, procs, pidfile, monitor>>

\* what the caller reads in status["stats"]
StatusStats ==
    IF status.stats = "self.stats" THEN stats ELSE status.stats

NextStatus ==
    \/ get_status
    \/ take_screenshot_begin
    \/ take_screenshot_unknown_region
    \/ take_screenshot_capture_fails
    \/ take_screenshot_captured
    \/ send_photo_enter
    \/ send_photo_post
    \/ send_photo_wait
    \/ take_screenshot_sent
    \/ take_screenshot_not_sent
    \/ take_screenshot_end

\* C26: what get_status() returned is a snapshot: the caller reads in it
\* the stats of the time of the call, whatever the jobs have done since.
StatusIsSnapshot ==
    status.returned => StatusStats = status.seen

-----------------------------------------------------------------------------
(* The names of the artifacts: claims *)

\* C29: every file a job execution has written matches one of the patterns
\* cleanup_old_screenshots lists the directory with.
SweepCoverage ==
    \A f \in disk : Candidate(f)

\* C38: the list of files that the globs of the sweep build holds each
\* file of the directory at most once.
CandidatesOnce ==
    \A i, k \in 1..Len(sw.files) : sw.files[i] = sw.files[k] => i = k

-----------------------------------------------------------------------------
(* ScreenshotHealthMonitor.check_recent_screenshots *)

\* runs of the health monitor followed in one run
MaxChecks == 2

\* MONITOR_CONFIG
max_age_minutes == 10

min_file_size == 1000

\* the daemon is run with a region named "screenshot", active or not, and
\* with the regions of CONFIG
MonitorConfigs ==
    {[DefaultConfig EXCEPT !.regions = <<FullScreen, Legacy>>,
                           !.active_regions = act,
                           !.telegram_enabled = te] :
        act \in {<<FullScreen>>, <<Legacy>>}, te \in BOOLEAN}
    \cup {[DefaultConfig EXCEPT !.web_enabled = FALSE],
          [DefaultConfig EXCEPT !.active_regions = <<Ghost, Custom>>,
                                !.active_urls = <<Nowhere, Google>>]}

NoMonitor == [runs |-> 0, recent_ok |-> FALSE, alerts |-> <<>>]

\* the captures of the model are files of min_file_size bytes
st_size(f) == min_file_size

\* check_recent_screenshots() on the directory d at time t, the directory
\* existing: what it returns and the alerts it appends
check_recent_screenshots(d, t) ==
    LET screenshots == {f \in d : Matches(Legacy, f)} IN
      IF screenshots = {}
        THEN [ok |-> FALSE, alerts |-> <<"No screenshots found">>]
        ELSE LET latest == CHOOSE f \in screenshots :
                               \A g \in screenshots : mtime(g) <= mtime(f)
             IN IF t - mtime(latest) > max_age_minutes * 60
                  THEN [ok |-> FALSE, alerts |-> <<"Last screenshot is old">>]
                  ELSE IF st_size(latest) < min_file_size
                         THEN [ok |-> FALSE, alerts |-> <<"too small">>]
                         ELSE [ok |-> TRUE, alerts |-> <<>>]

\* a run of health_monitor.py, some time after the step before it: a new
\* ScreenshotHealthMonitor, alerts = [], recent_ok = check_recent_screenshots()
run_health_check ==
    /\ monitor.runs < MaxChecks
    /\ \E d \in {0, max_age_minutes * 60, max_age_minutes * 60 + 1} :
         /\ now' = now + d
         /\ LET r == check_recent_screenshots(disk, now + d) IN
              monitor' = [runs |-> monitor.runs + 1, recent_ok |-> r.ok,
                          alerts |-> r.alerts]
    /\ UNCHANGED <<config, stats, disk, loopVars, lifeVars, sendVars,
                   sweepVars, status, procs, pidfile>>

NextMonitor ==
    \/ run_health_check
    \/ NextSend

\* C39: when a run of the health monitor finds in the directory an
\* artifact of the daemon of at least min_file_size bytes and at most
\* max_age_minutes old, check_recent_screenshots returns True and adds no
\* alert.
MonitorSeesArtifacts ==
    [][(/\ monitor'.runs = monitor.runs + 1
        /\ \E f \in disk : /\ now' - mtime(f) <= max_age_minutes * 60
                            /\ st_size(f) >= min_file_size)
       => (monitor'.recent_ok /\ monitor'.alerts = <<>>)]_vars

-----------------------------------------------------------------------------
(* The control loop calling the sweep: claims *)

\* C37: stats.last_cleanup changes only in the step that ends a sweep
\* without an error, which sets it to the time of that step; the step
\* that ends a sweep by its exception handler leaves stats as it is; when
\* the sweep returns to the loop, aborted or not, the loop's last_cleanup
\* becomes the time of the iteration, and a sweep is entered only in an
\* iteration more than cleanup_interval after it.
LastCleanupOnlyOnCompletion ==
    [][/\ stats'.last_cleanup # stats.last_cleanup
          => (sw.pc # "done" /\ sw'.pc = "done" /\ ~sw'.failed)
       /\ (sw.pc # "done" /\ sw'.pc = "done" /\ ~sw'.failed)
          => stats'.last_cleanup = now
       /\ (sw.pc # "done" /\ sw'.pc = "done" /\ sw'.failed)
          => stats' = stats
       /\ (pc = "sweeping" /\ pc' # "sweeping")
          => (last_cleanup' = current_time /\ calls'.sweep = calls.sweep + 1)
       /\ (pc # "sweeping" /\ pc' = "sweeping")
          => current_time - last_cleanup > config.cleanup_interval
       /\ calls'.sweep # calls.sweep => pc = "sweeping"]_vars

\* the loop enters its second sweep, the first having been aborted
\* without a change of stats.last_cleanup
SweepAgainAfterAbortedOne ==
    /\ pc = "sweeping"
    /\ sw.pc = "idle"
    /\ sw.runs = 1
    /\ sw.failed
    /\ calls.sweep = 1
    /\ stats.last_cleanup = NoTime
    /\ last_cleanup >= StartEpoch
    /\ current_time - last_cleanup > config.cleanup_interval

-----------------------------------------------------------------------------
(* The control loop and the wall clock: claims *)

\* the minute of the day of the wall clock at time t
WallMinute(t) == (t % DaySeconds) \div 60

\* C25: a job due at a time of day, here the minute the run starts in, has
\* been executed once an iteration in that minute has run to its sleep, and
\* is executed at most once in the hour.
TimeOfDayJobRuns ==
    /\ (pc = "sleep" /\ WallMinute(current_time) = WallMinute(StartEpoch))
       => calls.timed >= 1
    /\ calls.timed <= 1

\* C31: whenever the running flag is set, stats.start_time is set: a
\* status query that sees running sees an uptime.
StartTimeWithRunning ==
    running => stats.start_time # NoTime

\* C34: when the first iteration comes to its wait, be it the sleep of the
\* loop or the one of its handler, every job has been called once, in the
\* order region capture, web capture, sweep, health check, the web capture
\* and the sweep only if enabled; a disabled sweep is never called.
FirstIterationRunsAll ==
    /\ (pc \in {"sleep", "except"} /\ calls.shot = 1)
       => /\ calls.web = (IF config.web_enabled THEN 1 ELSE 0)
          /\ calls.sweep = (IF config.enable_cleanup THEN 1 ELSE 0)
          /\ calls.health = 1
    /\ calls.web >= 1 => calls.shot >= 1
    /\ calls.sweep >= 1 => (config.web_enabled => calls.web >= 1)
    /\ calls.health >= 1 => (config.enable_cleanup => calls.sweep >= 1)
    /\ ~config.enable_cleanup => calls.sweep = 0

-----------------------------------------------------------------------------
(* The specifications *)

IdleLoop ==
    /\ running = FALSE
    /\ pc = "unstarted"
    /\ current_time = 0
    /\ last_cleanup = 0
    /\ last_health_check = 0
    /\ last_web_screenshot = 0
    /\ calls = NoCalls
    /\ loop_errors = 0
    /\ job_seconds = 0

IdleOuter ==
    /\ status = NoStatus
    /\ procs = <<>>
    /\ pidfile = NoPidFile
    /\ monitor = NoMonitor

IdleSweep ==
    /\ sw = IdleSweepCall
    /\ locked = {}

Init ==
    /\ config \in LoopConfigs
    /\ now = StartEpoch
    /\ stats = InitStats
    /\ disk = {}
    /\ InitLoop
    /\ InitJobs
    /\ IdleSweep
    /\ IdleLife
    /\ IdleOuter

Next == NextLoop

Spec == Init /\ [][Next]_vars

InitSend ==
    /\ config \in SendConfigs
    /\ now = StartEpoch
    /\ stats = InitStats
    /\ disk = {}
    /\ IdleLoop
    /\ InitJobs
    /\ IdleSweep
    /\ IdleLife
    /\ IdleOuter

SpecSend == InitSend /\ [][NextSend]_vars

InitSweep ==
    /\ config \in SweepConfigs
    /\ now = StartEpoch
    /\ stats = InitStats
    /\ disk \in {d \in SUBSET DiskFiles : Cardinality(d) <= MaxDisk}
    /\ IdleLoop
    /\ InitJobs
    /\ InitSweepCall
    /\ IdleLife
    /\ IdleOuter

SpecSweep == InitSweep /\ [][NextSweep]_vars

\* the sweep alone: every file can be deleted and nothing else changes the
\* directory
InitSweepAlone == InitSweep /\ locked = {}

SpecSweepAlone == InitSweepAlone /\ [][NextSweepAlone]_vars

InitLoopSweep ==
    /\ config \in LoopSweepConfigs
    /\ now = StartEpoch
    /\ stats = InitStats
    /\ disk \in {d \in SUBSET LoopSweepFiles : Cardinality(d) <= MaxDisk}
    /\ InitLoop
    /\ job_seconds = 0
    /\ InitJobs
    /\ IdleSweep
    /\ IdleLife
    /\ IdleOuter

SpecLoopSweep == InitLoopSweep /\ [][NextLoopSweep]_vars

InitMonitor ==
    /\ config \in MonitorConfigs
    /\ now = StartEpoch
    /\ stats = InitStats
    /\ disk = {}
    /\ IdleLoop
    /\ InitJobs
    /\ IdleSweep
    /\ IdleLife
    /\ IdleOuter

SpecMonitor == InitMonitor /\ [][NextMonitor]_vars

InitLife ==
    /\ config \in LifeConfigs
    /\ now = StartEpoch
    /\ stats = InitStats
    /\ disk = {}
    /\ IdleLoop
    /\ InitJobs
    /\ IdleSweep
    /\ IdleLife
    /\ IdleOuter

SpecLife == InitLife /\ [][NextLife]_vars

InitCount ==
    /\ config \in CountConfigs
    /\ now = StartEpoch
    /\ stats = InitStats
    /\ disk = {}
    /\ IdleLoop
    /\ InitJobs
    /\ IdleSweep
    /\ IdleLife
    /\ IdleOuter

SpecCount == InitCount /\ [][NextCount]_vars

InitStatus ==
    /\ config \in StatusConfigs
    /\ now = StartEpoch
    /\ stats = InitStats
    /\ disk = {}
    /\ IdleLoop
    /\ InitJobs
    /\ IdleSweep
    /\ IdleLife
    /\ IdleOuter

SpecStatus == InitStatus /\ [][NextStatus]_vars

InitPid ==
    /\ config = DefaultConfig
    /\ now = StartEpoch
    /\ stats = InitStats
    /\ disk = {}
    /\ IdleLoop
    /\ InitJobs
    /\ IdleSweep
    /\ IdleLife
    /\ IdleOuter

SpecPid == InitPid /\ [][NextPid]_vars

====
